---------------------------- MODULE Spec2Model ----------------------------
(***************************************************************************)
(* State-machine model of the Priyansh Dryfruits & Spices backend          *)
(* (src/main.py, src/schemas.py): the seed, product-listing and checkout   *)
(* handlers over the "product" and "order" collections.                    *)
(*                                                                         *)
(* Money is a Python float in the code.  The model keeps it in fixed-point *)
(* thousandths of a currency unit (699.0 is 699000), so that prices with   *)
(* three decimals exist and round(x, 2) is a real operation.  A value that *)
(* lies exactly half-way between two hundredths is rounded by the code     *)
(* according to its binary representation (round(0.015, 2) = 0.01 but      *)
(* round(0.025, 2) = 0.03), so the model allows both neighbours there.     *)
(*                                                                         *)
(* The product collection is a bag of documents: the handlers never order  *)
(* it and never read a product's identifier.  The order collection is a    *)
(* sequence in insertion order; an order's identifier is its position.     *)
(***************************************************************************)
EXTENDS Integers, Sequences, FiniteSets, Bags, TLC

VARIABLES
    dbAvailable,  \* main.py:8     db is not None
    products,     \* db["product"], a bag of Product documents
    orders,       \* db["order"], a sequence of Order documents
    response,     \* what the most recent endpoint call answered
    dbCalls,      \* gateway calls issued by the most recent endpoint call
    dbEdits,      \* direct database edits made so far (bounded)
    pc,           \* concurrent seed calls: position of each call
    existing,     \* concurrent seed calls: the local `existing`
    idx,          \* concurrent seed calls: next catalog entry to insert
    result        \* concurrent seed calls: what each call answered

vars == <<dbAvailable, products, orders, response, dbCalls, dbEdits,
          pc, existing, idx, result>>

seqVars  == <<dbAvailable, orders, response, dbCalls, dbEdits>>
concVars == <<pc, existing, idx, result>>

----------------------------------------------------------------------------
(* Bounds of the model *)

MaxItems == 2

MaxStored == 3

MaxDbEdits == 1

NumSeeders == 2

----------------------------------------------------------------------------
(* Fixed-point money *)

Milli(units) == units * 1000

Cent == 10

TaxRatePercent == 5

None == "None"

OID == "ObjectId"

----------------------------------------------------------------------------
(* schemas.py *)

ValidProduct(d) ==
    /\ d.price >= 0

\* mutant: the quantity bound is ge=0
ValidOrderItemLoose(it) ==
    /\ it.quantity >= 0
    /\ it.price >= 0

ValidOrderItem(it) ==
    /\ it.quantity >= 1
    /\ it.price >= 0

ValidOrder(o) ==
    /\ \A i \in 1..Len(o.items) : ValidOrderItem(o.items[i])
    /\ o.subtotal >= 0
    /\ o.tax >= 0
    /\ o.total >= 0

\* mutant: items is declared with a minimum length of one
ValidCheckoutRequestNonEmpty(payload) ==
    /\ Len(payload.items) >= 1
    /\ \A i \in 1..Len(payload.items) : ValidOrderItem(payload.items[i])

ValidCheckoutRequest(payload) ==
    \A i \in 1..Len(payload.items) : ValidOrderItem(payload.items[i])

----------------------------------------------------------------------------
(* The catalog of seed_products *)

P(title, description, price, category, image) ==
    [title |-> title, description |-> description, price |-> Milli(price),
     category |-> category, image_url |-> image, in_stock |-> TRUE]

Catalog ==
    << P("Premium Almonds", "Handpicked Californian almonds.", 699, "dryfruits", "/images/almonds.jpg"),
       P("Whole Cashews", "Crisp and buttery cashews.", 749, "dryfruits", "/images/cashews.jpg"),
       P("Pistachios", "Roasted and lightly salted.", 899, "dryfruits", "/images/pistachios.jpg"),
       P("Walnuts", "Omega-3 rich walnut kernels.", 799, "dryfruits", "/images/walnuts.jpg"),
       P("Raisins", "Golden seedless raisins.", 299, "dryfruits", "/images/raisins.jpg"),
       P("Cardamom (Elaichi)", "Aromatic whole green cardamom.", 459, "spices", "/images/cardamom.jpg"),
       P("Black Pepper", "Bold Malabar black pepper.", 349, "spices", "/images/blackpepper.jpg"),
       P("Turmeric Powder", "Pure Lakadong turmeric.", 199, "spices", "/images/turmeric.jpg"),
       P("Red Chilli Powder", "Vibrant Byadgi chilli powder.", 229, "spices", "/images/redchilli.jpg"),
       P("Spice Gift Box", "Curated spice box for gifting.", 1299, "gifting", "/images/spicebox.jpg"),
       P("Dry Fruits Combo", "Assorted premium dry fruits.", 1499, "combos", "/images/combobox.jpg") >>


CatalogSize == Len(Catalog)

----------------------------------------------------------------------------
(* Bags of documents *)

RECURSIVE SumOver(_, _)
SumOver(S, f) ==
    IF S = {} THEN 0
    ELSE LET x == CHOOSE y \in S : TRUE
         IN  f[x] + SumOver(S \ {x}, f)

\* The bag of the images F[d] of the documents d of bag B.
MapBag(F, B) ==
    LET pairs == {<<d, F[d]>> : d \in DOMAIN B}
    IN  [e \in {pr[2] : pr \in pairs} |->
            SumOver({pr[1] : pr \in {q \in pairs : q[2] = e}}, B)]

Single(d) == SetToBag({d})

----------------------------------------------------------------------------
(* The persistence gateway (database.py) *)

WithId(entity, id) == ("_id" :> id) @@ entity

\* create_document("product", entity)
CreateProductDocument(coll, entity) == coll (+) Single(WithId(entity, OID))

\* create_document("order", entity): the generated id is the position
CreateOrderDocument(coll, entity) == Append(coll, WithId(entity, Len(coll) + 1))

Matches(d, filter) == \A k \in DOMAIN filter : d[k] = filter[k]

\* get_documents(collection, filter)
GetDocuments(coll, filter) ==
    [d \in {x \in DOMAIN coll : Matches(x, filter)} |-> coll[d]]

\* db[collection].count_documents({})
CountDocuments(coll) == BagCardinality(coll)

----------------------------------------------------------------------------
(* Responses *)

ConfigError(op) ==
    [op |-> op, status |-> 500, body |-> [detail |-> "Database not configured"]]

ValidationError(op) ==
    [op |-> op, status |-> 422, body |-> [detail |-> "validation error"]]

ServerError(op) ==
    [op |-> op, status |-> 500, body |-> [detail |-> "Internal Server Error"]]

AlreadySeeded ==
    [op |-> "seed", status |-> 200,
     body |-> [status |-> "ok", message |-> "Products already seeded"]]

Inserted(n) ==
    [op |-> "seed", status |-> 200, body |-> [status |-> "ok", inserted |-> n]]

NoResponse == [op |-> "none", status |-> 0, body |-> [detail |-> "none"]]

----------------------------------------------------------------------------
(* POST /seed, the whole handler *)

RECURSIVE InsertAll(_, _, _)
InsertAll(coll, docs, i) ==
    IF i > Len(docs) THEN coll
    ELSE InsertAll(CreateProductDocument(coll, docs[i]), docs, i + 1)

\* mutant: the count of existing products is not consulted
SeedWithoutCheck ==
    IF ~dbAvailable
    THEN /\ response' = ConfigError("seed")
         /\ dbCalls' = 0
         /\ UNCHANGED <<dbAvailable, products, orders, dbEdits, concVars>>
    ELSE /\ CountDocuments(products) < 2 * Len(Catalog)
         /\ products' = InsertAll(products, Catalog, 1)
         /\ response' = Inserted(Len(Catalog))
         /\ dbCalls' = Len(Catalog)
         /\ UNCHANGED <<dbAvailable, orders, dbEdits, concVars>>

Seed ==
    IF ~dbAvailable
    THEN /\ response' = ConfigError("seed")
         /\ dbCalls' = 0
         /\ UNCHANGED <<dbAvailable, products, orders, dbEdits, concVars>>
    ELSE IF CountDocuments(products) > 0
    THEN /\ response' = AlreadySeeded
         /\ dbCalls' = 1
         /\ UNCHANGED <<dbAvailable, products, orders, dbEdits, concVars>>
    ELSE /\ \A i \in 1..Len(Catalog) : ValidProduct(Catalog[i])
         /\ products' = InsertAll(products, Catalog, 1)
         /\ response' = Inserted(Len(Catalog))
         /\ dbCalls' = 1 + Len(Catalog)
         /\ UNCHANGED <<dbAvailable, orders, dbEdits, concVars>>

----------------------------------------------------------------------------
(* GET /products *)

Truthy(category) == category \notin {None, ""}

EmptyFilter == [k \in {} |-> None]

Fold(v) == IF v = "Spices" THEN "spices" ELSE v

\* mutant: the category is put in lower case before it is used
FilterQFolded(category) ==
    IF Truthy(category) THEN [category |-> Fold(category)] ELSE EmptyFilter

FilterQ(category) ==
    IF Truthy(category) THEN [category |-> category] ELSE EmptyFilter

ProductFields == {"title", "description", "price", "category", "image_url", "in_stock"}

\* d.pop("_id", None); Product(**d)
ToProduct(d) == [k \in (DOMAIN d \ {"_id"}) \cap ProductFields |-> d[k]]

ListResult(coll, category) ==
    LET docs == GetDocuments(coll, FilterQ(category))
    IN  MapBag([d \in DOMAIN docs |-> ToProduct(d)], docs)

\* mutant: the handler does not test the database handle
ListProductsUnchecked(category) ==
    /\ response' = [op |-> "products", status |-> 200,
                    body |-> ListResult(products, category)]
    /\ dbCalls' = 1
    /\ UNCHANGED <<dbAvailable, products, orders, dbEdits, concVars>>

ListProducts(category) ==
    IF ~dbAvailable
    THEN /\ response' = ConfigError("products")
         /\ dbCalls' = 0
         /\ UNCHANGED <<dbAvailable, products, orders, dbEdits, concVars>>
    ELSE /\ response' = [op |-> "products", status |-> 200,
                         body |-> ListResult(products, category)]
         /\ dbCalls' = 1
         /\ UNCHANGED <<dbAvailable, products, orders, dbEdits, concVars>>

----------------------------------------------------------------------------
(* POST /checkout *)

RECURSIVE Subtotal(_)
Subtotal(items) ==
    IF items = <<>> THEN 0
    ELSE Head(items).price * Head(items).quantity + Subtotal(Tail(items))

\* round(n / d, 2) for a value of n / d thousandths: the multiples of a
\* hundredth nearest to it; both neighbours when it is exactly half-way.
Round2(n, d) ==
    LET unit == Cent * d
        k    == n \div unit
        r    == n % unit
    IN  IF 2 * r < unit THEN {Cent * k}
        ELSE IF 2 * r > unit THEN {Cent * (k + 1)}
        ELSE {Cent * k, Cent * (k + 1)}

\* mutant: the tax is cut to two decimals instead of rounded
TaxOfTruncated(subtotal) ==
    {Cent * ((subtotal * TaxRatePercent) \div (Cent * 100))}

TaxOf(subtotal) == Round2(subtotal * TaxRatePercent, 100)

\* mutant: the total is not rounded
TotalOfUnrounded(subtotal, tax) == {subtotal + tax}

TotalOf(subtotal, tax) == Round2(subtotal + tax, 1)

Reverse(seq) == [i \in 1..Len(seq) |-> seq[Len(seq) + 1 - i]]

\* mutant: the items are stored in the opposite order
StoredItemsReversed(payload) == Reverse(payload.items)

StoredItems(payload) == payload.items

MakeOrder(payload, subtotal, tax, total) ==
    [customer_name |-> payload.customer_name,
     customer_email |-> payload.customer_email,
     customer_phone |-> None,
     shipping_address |-> payload.shipping_address,
     items |-> StoredItems(payload),
     subtotal |-> subtotal,
     tax |-> tax,
     total |-> total]

\* what the order collection holds: its orders and their items
RECURSIVE Stored(_)
Stored(coll) ==
    IF coll = <<>> THEN 0
    ELSE 1 + Len(Head(coll).items) + Stored(Tail(coll))

Checkout(payload) ==
    IF ~ValidCheckoutRequest(payload)
    THEN /\ response' = ValidationError("checkout")
         /\ dbCalls' = 0
         /\ UNCHANGED <<dbAvailable, products, orders, dbEdits, concVars>>
    ELSE IF ~dbAvailable
    THEN /\ response' = ConfigError("checkout")
         /\ dbCalls' = 0
         /\ UNCHANGED <<dbAvailable, products, orders, dbEdits, concVars>>
    ELSE LET subtotal == Subtotal(payload.items)
         IN  \E tax \in TaxOf(subtotal) :
             \E total \in TotalOf(subtotal, tax) :
             LET order == MakeOrder(payload, subtotal, tax, total)
             IN  IF ~ValidOrder(order)
                 THEN /\ response' = ServerError("checkout")
                      /\ dbCalls' = 0
                      /\ UNCHANGED <<dbAvailable, products, orders, dbEdits, concVars>>
                 ELSE /\ Stored(orders) + 1 + Len(payload.items) <= MaxStored
                      /\ orders' = CreateOrderDocument(orders, order)
                      /\ response' = [op |-> "checkout", status |-> 200,
                                      body |-> [status |-> "success",
                                                order_id |-> Len(orders) + 1,
                                                total |-> total]]
                      /\ dbCalls' = 1
                      /\ UNCHANGED <<dbAvailable, products, dbEdits, concVars>>

----------------------------------------------------------------------------
(* Direct database edits through the schema viewer (schemas.py:60-64) *)

Saffron ==
    [title |-> "Kashmiri Saffron", description |-> None, price |-> Milli(450),
     category |-> "Spices", image_url |-> None, in_stock |-> TRUE]

ViewerDocs == {Saffron, [Saffron EXCEPT !.price = Milli(-1)]}

ReferencedTitles == {"Premium Almonds"}

Editable(coll) == {d \in DOMAIN coll : d.title \in ReferencedTitles}

Edited(d) ==
    {[d EXCEPT !.price = d.price + Milli(50)],
     [d EXCEPT !.title = "Discontinued"]}

DbInsertProduct(doc) ==
    /\ dbEdits < MaxDbEdits
    /\ dbEdits' = dbEdits + 1
    /\ dbCalls' = 0
    /\ IF ValidProduct(doc)
       THEN /\ products' = CreateProductDocument(products, doc)
            /\ response' = [op |-> "viewer", status |-> 200,
                            body |-> [detail |-> "stored"]]
       ELSE /\ products' = products
            /\ response' = ValidationError("viewer")
    /\ UNCHANGED <<dbAvailable, orders, concVars>>

DbUpdateProduct(d, new) ==
    /\ dbEdits < MaxDbEdits
    /\ d \in Editable(products)
    /\ new \in Edited(d)
    /\ ValidProduct(new)
    /\ dbEdits' = dbEdits + 1
    /\ dbCalls' = 0
    /\ products' = (products (-) Single(d)) (+) Single(new)
    /\ response' = [op |-> "viewer", status |-> 200,
                    body |-> [detail |-> "stored"]]
    /\ UNCHANGED <<dbAvailable, orders, concVars>>

DbDeleteProduct(d) ==
    /\ dbEdits < MaxDbEdits
    /\ d \in Editable(products)
    /\ dbEdits' = dbEdits + 1
    /\ dbCalls' = 0
    /\ products' = products (-) Single(d)
    /\ response' = [op |-> "viewer", status |-> 200,
                    body |-> [detail |-> "deleted"]]
    /\ UNCHANGED <<dbAvailable, orders, concVars>>

----------------------------------------------------------------------------
(* Requests *)

Item(pid, title, quantity, price) ==
    [product_id |-> pid, title |-> title, quantity |-> quantity, price |-> price]

Almonds2 == Item("p1", "Premium Almonds", 2, Milli(699))

Raisins1 == Item("p5", "Raisins", 1, Milli(299))

\* a unit price of 0.105, three decimals
Pinch1 == Item("p8", "Turmeric Powder", 1, 105)

ZeroQuantity == Item("p5", "Raisins", 0, Milli(299))

NegativePrice == Item("p1", "Premium Almonds", 1, Milli(-1))

GoodItems == {Almonds2, Raisins1, Pinch1}

BadItems == {ZeroQuantity, NegativePrice}

SeqsUpTo(S, n) == UNION {[1..k -> S] : k \in 0..n}

\* the item lists of the requests: every list of good items, and every
\* list that has a bad item anywhere among copies of one good item
ItemLists ==
    SeqsUpTo(GoodItems, MaxItems) \cup
    {its \in SeqsUpTo(BadItems \cup {Almonds2}, MaxItems) :
        \E i \in 1..Len(its) : its[i] \in BadItems}

PayloadOf(its) ==
    [customer_name |-> "Asha", customer_email |-> "asha@example.com",
     shipping_address |-> "12 MG Road", items |-> its]

Payloads == {PayloadOf(its) : its \in ItemLists}

BadPayloads ==
    {payload \in Payloads :
        \E i \in 1..Len(payload.items) :
            payload.items[i].quantity < 1 \/ payload.items[i].price < 0}

Categories == {None, "", "spices", "Spices"}

----------------------------------------------------------------------------
(* Sequential calls: one whole handler at a time *)

Seeders == 1..NumSeeders

IdleSeeders ==
    /\ pc = [p \in Seeders |-> "idle"]
    /\ existing = [p \in Seeders |-> 0]
    /\ idx = [p \in Seeders |-> 1]
    /\ result = [p \in Seeders |-> NoResponse]

InitProducts == {EmptyBag, Single(WithId(Saffron, OID))}

Init ==
    /\ dbAvailable \in BOOLEAN
    /\ products \in InitProducts
    /\ orders = <<>>
    /\ response = NoResponse
    /\ dbCalls = 0
    /\ dbEdits = 0
    /\ IdleSeeders

Next ==
    \/ Seed
    \/ \E category \in Categories : ListProducts(category)
    \/ \E payload \in Payloads : Checkout(payload)
    \/ \E doc \in ViewerDocs : DbInsertProduct(doc)
    \/ \E d \in DOMAIN products : \E new \in Edited(d) : DbUpdateProduct(d, new)
    \/ \E d \in DOMAIN products : DbDeleteProduct(d)

Spec == Init /\ [][Next]_vars

----------------------------------------------------------------------------
(* Concurrent seed calls: each gateway call of seed_products is one step,  *)
(* and a gateway call may raise.                                           *)

\* existing = db["product"].count_documents({}); if existing > 0: return
SeedCount(p) ==
    /\ pc[p] = "idle"
    /\ existing' = [existing EXCEPT ![p] = CountDocuments(products)]
    /\ IF CountDocuments(products) > 0
       THEN /\ pc' = [pc EXCEPT ![p] = "done"]
            /\ result' = [result EXCEPT ![p] = AlreadySeeded]
       ELSE /\ pc' = [pc EXCEPT ![p] = "insert"]
            /\ result' = result
    /\ UNCHANGED <<products, idx, seqVars>>

\* one turn of: for p in products: create_document("product", Product(**p))
SeedInsert(p) ==
    /\ pc[p] = "insert"
    /\ idx[p] <= Len(Catalog)
    /\ ValidProduct(Catalog[idx[p]])
    /\ products' = CreateProductDocument(products, Catalog[idx[p]])
    /\ idx' = [idx EXCEPT ![p] = idx[p] + 1]
    /\ IF idx[p] = Len(Catalog)
       THEN /\ pc' = [pc EXCEPT ![p] = "done"]
            /\ result' = [result EXCEPT ![p] = Inserted(Len(Catalog))]
       ELSE /\ UNCHANGED <<pc, result>>
    /\ UNCHANGED <<existing, seqVars>>

\* the gateway call the handler is about to make raises
SeedDbError(p) ==
    /\ pc[p] \in {"idle", "insert"}
    /\ pc' = [pc EXCEPT ![p] = "done"]
    /\ result' = [result EXCEPT ![p] = ServerError("seed")]
    /\ UNCHANGED <<products, existing, idx, seqVars>>

InitConc ==
    /\ dbAvailable = TRUE
    /\ products = EmptyBag
    /\ orders = <<>>
    /\ response = NoResponse
    /\ dbCalls = 0
    /\ dbEdits = 0
    /\ IdleSeeders

NextConc ==
    \/ \E p \in Seeders : SeedCount(p)
    \/ \E p \in Seeders : SeedInsert(p)
    \/ \E p \in Seeders : SeedDbError(p)

SpecConc == InitConc /\ [][NextConc]_vars

----------------------------------------------------------------------------
(* Vocabulary of the properties *)

CatalogBag == InsertAll(EmptyBag, Catalog, 1)

SeedCall(r) == r.op = "seed"

ListCall(r) == r.op = "products"

CheckoutCall(r) == r.op = "checkout"

ReportsNothingInserted(r) ==
    /\ SeedCall(r)
    /\ r.status = 200
    /\ "inserted" \notin DOMAIN r.body

ReportsInserted(r, n) ==
    /\ SeedCall(r)
    /\ r.status = 200
    /\ "inserted" \in DOMAIN r.body
    /\ r.body.inserted = n

IsConfigError(r) ==
    /\ r.status = 500
    /\ r.body = [detail |-> "Database not configured"]

\* sum of price x quantity, accumulated from the first item on
SumPriceQuantity(items) ==
    LET acc[i \in 0..Len(items)] ==
            IF i = 0 THEN 0
            ELSE acc[i - 1] + items[i].price * items[i].quantity
    IN  acc[Len(items)]

Abs(x) == IF x < 0 THEN -x ELSE x

\* v is a whole number of hundredths and no hundredth is nearer to n / d
NearestHundredth(v, n, d) ==
    /\ v % 10 = 0
    /\ 2 * Abs(v * d - n) <= 10 * d

LastOrder(coll) == coll[Len(coll)]

WithoutId(d) == [k \in DOMAIN d \ {"_id"} |-> d[k]]

\* the products of the collection that satisfy Keep, without identifiers
Selected(coll, Keep(_)) ==
    LET kept == [d \in {x \in DOMAIN coll : Keep(x)} |-> coll[d]]
    IN  MapBag([d \in DOMAIN kept |-> WithoutId(d)], kept)

----------------------------------------------------------------------------
(* C9: no partial-failure state.  Whenever no seed call is in progress,    *)
(* the product collection is as before the seeding (empty) or holds the    *)
(* whole catalog; it never holds a strict non-empty part of the catalog,   *)
(* which no later seed call would complete.                                *)
NoPartialSeed ==
    (\A p \in Seeders : pc[p] \in {"idle", "done"}) =>
        \/ products = EmptyBag
        \/ CatalogBag \sqsubseteq products

(* C10: one-time seeding under concurrency.  When all concurrent seed      *)
(* calls have returned without an error, the product collection holds      *)
(* exactly eleven products and at most one call reports having inserted    *)
(* them.                                                                   *)
SeededAtMostOnce ==
    (\A p \in Seeders : pc[p] = "done" /\ result[p].status = 200) =>
        /\ BagCardinality(products) = 11
        /\ Cardinality({p \in Seeders : ReportsInserted(result[p], 11)}) <= 1

----------------------------------------------------------------------------
(* C1: seed idempotence.  A seed call on a product collection that holds   *)
(* at least one document changes nothing and reports that nothing was      *)
(* inserted; on an empty collection it inserts the eleven catalog products *)
(* and reports eleven; and a seed call that directly follows a seed call   *)
(* reports that nothing was inserted and leaves the collection unchanged.  *)
SeedIdempotent ==
    [][(dbAvailable /\ SeedCall(response')) =>
          /\ CountDocuments(products) > 0 =>
                /\ products' = products
                /\ ReportsNothingInserted(response')
          /\ CountDocuments(products) = 0 =>
                /\ products' = CatalogBag
                /\ BagCardinality(products') = 11
                /\ ReportsInserted(response', 11)
          /\ (SeedCall(response) /\ response.status = 200) =>
                /\ products' = products
                /\ ReportsNothingInserted(response')
      ]_vars

\* the second of two seed calls in succession has answered
SeededTwice ==
    /\ dbAvailable
    /\ ReportsNothingInserted(response)
    /\ products = CatalogBag

(* C2: checkout totals.  An accepted checkout stores and returns           *)
(* subtotal = sum of price x quantity, tax = subtotal x 0.05 rounded to    *)
(* two decimals and total = subtotal + tax rounded to two decimals; the    *)
(* items (699.0 x 2, 299.0 x 1) give 1697.0, 84.85 and 1781.85.            *)
CheckoutTotals ==
    [][(CheckoutCall(response') /\ response'.status = 200) =>
          \A payload \in Payloads : Checkout(payload) =>
              LET o == LastOrder(orders')
                  sub == SumPriceQuantity(payload.items)
              IN  /\ o.subtotal = sub
                  /\ NearestHundredth(o.tax, sub * 5, 100)
                  /\ NearestHundredth(o.total, sub + o.tax, 1)
                  /\ response'.body.total = o.total
                  /\ payload.items = <<Almonds2, Raisins1>> =>
                        /\ o.subtotal = 1697000
                        /\ o.tax = 84850
                        /\ o.total = 1781850
      ]_vars

\* the example order has been placed
ExampleOrdered ==
    /\ CheckoutCall(response)
    /\ response.status = 200
    /\ LastOrder(orders).items = <<Almonds2, Raisins1>>
    /\ response.body.total = 1781850

(* C3: order round-trip and immutability.  A checkout appends one order    *)
(* holding exactly the request's items in the request's order; no step     *)
(* (seed, listing, further checkout, edit or removal of a product in the   *)
(* database) changes or removes an order already stored.                   *)
OrdersImmutable ==
    [][/\ Len(orders') >= Len(orders)
       /\ \A i \in 1..Len(orders) : orders'[i] = orders[i]
       /\ (CheckoutCall(response') /\ response'.status = 200) =>
             /\ Len(orders') = Len(orders) + 1
             /\ \A payload \in Payloads : Checkout(payload) =>
                   LastOrder(orders').items = payload.items
      ]_vars

\* an order outlives a change of the product it names and a later checkout
OrderOutlivesProduct ==
    /\ Len(orders) = 2
    /\ orders[1].items = <<Almonds2>>
    /\ CatalogBag # products
    /\ dbEdits > 0
    /\ \A d \in DOMAIN products :
           ~(d.title = "Premium Almonds" /\ d.price = Milli(699))

----------------------------------------------------------------------------
(* C4, as claimed: whenever a category string is provided, the listing     *)
(* returns exactly the products whose category equals it.                  *)
ListExactForEveryString ==
    [][(dbAvailable /\ ListCall(response')) =>
          \A category \in Categories \ {None} : ListProducts(category) =>
              response'.body =
                  Selected(products, LAMBDA d : d.category = category)
      ]_vars

(* C4, amended: for a non-empty category string the listing returns        *)
(* exactly the products whose category equals it, case-sensitively; with   *)
(* no category, or with the empty string, it returns all products.  The    *)
(* listing leaves the product collection unchanged and no returned record  *)
(* carries the identifier.                                                 *)
ListExactForNonEmptyString ==
    [][(dbAvailable /\ ListCall(response')) =>
          /\ products' = products
          /\ \A r \in DOMAIN response'.body : "_id" \notin DOMAIN r
          /\ \A category \in Categories : ListProducts(category) =>
                IF category \in {None, ""}
                THEN response'.body = Selected(products, LAMBDA d : TRUE)
                ELSE response'.body =
                         Selected(products, LAMBDA d : d.category = category)
      ]_vars

\* a listing has returned some of the products and left others out
ListedSome ==
    /\ ListCall(response)
    /\ response.status = 200
    /\ BagCardinality(response.body) = 4
    /\ BagCardinality(products) = 12
    /\ \E d \in DOMAIN products : d.category = "Spices"

(* C5, as claimed: with the database handle unset, every seed, listing and *)
(* checkout call answers with the configuration error.                     *)
ConfigErrorAlways ==
    (~dbAvailable /\ response.op \in {"seed", "products", "checkout"}) =>
        IsConfigError(response)

(* C5, amended: with the database handle unset, seed, listing and every    *)
(* checkout whose body passes validation answer with the configuration     *)
(* error, and a checkout whose body fails validation answers with the      *)
(* validation error; in every case no gateway call is made and no product  *)
(* or order is inserted or changed.                                        *)
ConfigErrorBeforeDatabase ==
    [][(~dbAvailable /\ response'.op \in {"seed", "products", "checkout"}) =>
          /\ dbCalls' = 0
          /\ products' = products
          /\ orders' = orders
          /\ ~CheckoutCall(response') => IsConfigError(response')
          /\ CheckoutCall(response') =>
                /\ (\E payload \in BadPayloads : Checkout(payload)) =>
                       response'.status = 422
                /\ (\E payload \in Payloads \ BadPayloads : Checkout(payload)) =>
                       IsConfigError(response')
      ]_vars

\* a well-formed checkout was refused for want of a database
CheckoutRefused ==
    /\ ~dbAvailable
    /\ CheckoutCall(response)
    /\ IsConfigError(response)

(* C6: numeric lower bounds.  A checkout with an item of quantity < 1 or   *)
(* price < 0 is rejected with a validation error and leaves the orders     *)
(* unchanged; every stored order has only items with quantity >= 1 and     *)
(* price >= 0 and has subtotal, tax and total >= 0; a product with         *)
(* price -1 is rejected with a validation error.                           *)
LowerBoundsEnforced ==
    [][/\ \A i \in 1..Len(orders') :
             /\ \A j \in 1..Len(orders'[i].items) :
                    /\ orders'[i].items[j].quantity >= 1
                    /\ orders'[i].items[j].price >= 0
             /\ orders'[i].subtotal >= 0
             /\ orders'[i].tax >= 0
             /\ orders'[i].total >= 0
       /\ (CheckoutCall(response')
             /\ \E payload \in BadPayloads : Checkout(payload)) =>
                 /\ response'.status = 422
                 /\ orders' = orders
       /\ (response'.op = "viewer"
             /\ \E doc \in ViewerDocs : doc.price = -1000 /\ DbInsertProduct(doc)) =>
                 /\ response'.status = 422
                 /\ products' = products
      ]_vars

\* a checkout was rejected while an order was already stored
RejectedAfterOrder ==
    /\ CheckoutCall(response)
    /\ response.status = 422
    /\ Len(orders) >= 1

(* C7: empty cart.  A checkout with no items is accepted: it stores        *)
(* exactly one more order, with no items and subtotal, tax and total 0,    *)
(* and returns that order's identifier and total 0.                        *)
EmptyCartAccepted ==
    [][(dbAvailable /\ Checkout(PayloadOf(<<>>))) =>
              /\ Len(orders') = Len(orders) + 1
              /\ \A i \in 1..Len(orders) : orders'[i] = orders[i]
              /\ LastOrder(orders').items = <<>>
              /\ LastOrder(orders').subtotal = 0
              /\ LastOrder(orders').tax = 0
              /\ LastOrder(orders').total = 0
              /\ response'.status = 200
              /\ response'.body.status = "success"
              /\ response'.body.order_id = LastOrder(orders')["_id"]
              /\ response'.body.total = 0
      ]_vars

\* an empty cart has been checked out
EmptyCartOrdered ==
    /\ CheckoutCall(response)
    /\ response.status = 200
    /\ LastOrder(orders).items = <<>>
    /\ response.body.total = 0

(* C8, as claimed: every stored order has total = subtotal + tax,          *)
(* subtotal = sum of price x quantity and tax = subtotal x 0.05 rounded    *)
(* to two decimals.                                                        *)
StoredTotalIsSum ==
    \A i \in 1..Len(orders) :
        /\ orders[i].total = orders[i].subtotal + orders[i].tax
        /\ orders[i].subtotal = SumPriceQuantity(orders[i].items)
        /\ NearestHundredth(orders[i].tax, orders[i].subtotal * 5, 100)

(* C8, amended: every stored order has subtotal = sum of price x quantity, *)
(* tax = subtotal x 0.05 rounded to two decimals and total = subtotal +    *)
(* tax rounded to two decimals, which is subtotal + tax itself when the    *)
(* subtotal has no more than two decimals.                                 *)
StoredTotalIsRoundedSum ==
    \A i \in 1..Len(orders) :
        /\ orders[i].subtotal = SumPriceQuantity(orders[i].items)
        /\ NearestHundredth(orders[i].tax, orders[i].subtotal * 5, 100)
        /\ NearestHundredth(orders[i].total, orders[i].subtotal + orders[i].tax, 1)
        /\ orders[i].subtotal % 10 = 0 =>
               orders[i].total = orders[i].subtotal + orders[i].tax

\* an order whose subtotal has a third decimal is stored
SubCentOrderStored ==
    \E i \in 1..Len(orders) : orders[i].subtotal % 10 # 0

============================================================================
